---------------------------- MODULE Spec2Model ----------------------------
(***************************************************************************)
(* A model of the RISC-V register file and the nine immediate-form integer *)
(* instructions of src/src/lib.rs (struct Processor and fn sign_extend).   *)
(*                                                                         *)
(* A u32 is the pair <<hi, lo>> of its two 16-bit halves (value            *)
(* hi * 2^16 + lo); an i32 is the integer it denotes, -2^31 .. 2^31 - 1.   *)
(* No intermediate value of the model leaves the range of an i32.          *)
(***************************************************************************)
EXTENDS Integers, Sequences, FiniteSets, TLC

VARIABLES
    registers,        \* Processor.registers: [u32; 33]
    panicked,         \* the calling thread has panicked; the Processor is gone
    overflow_checks,  \* the build's overflow-checks setting (on in debug/test, off in release)
    calls,            \* number of calls made on the Processor so far
    last,             \* the last call: its name, arguments, return value and the registers before it
    shadow            \* for each index, the value of the most recent set(index, _), or 0
vars == <<registers, panicked, overflow_checks, calls, last, shadow>>

----------------------------------------------------------------------------
(* Bounds of the model. *)

\* At most this many calls are made on one Processor.
MaxCalls == 3

\* At most this many calls where the values and immediates range widely.
MaxWideCalls == 2

\* The largest shift amount tried on its own (the amounts in range are 0 .. 31).
MaxShamt == 33

----------------------------------------------------------------------------
(* 32-bit values. *)

H == 2^16

U32(hi, lo) == <<hi, lo>>
Zero == U32(0, 0)
One == U32(0, 1)
AllOnes == U32(H - 1, H - 1)

\* i32::MAX and i32::MIN.
I32_MAX == (2^30 - 1) + 2^30
I32_MIN == (-I32_MAX) - 1

\* `x as i32` for a u32 x: the same bits read as two's complement.
as_i32(w) ==
    IF w[1] >= 2^15 THEN (w[1] - H) * H + w[2] ELSE w[1] * H + w[2]

\* `x as u32` for an i32 x: the same bits read as unsigned.
as_u32(x) == U32((x \div H) % H, x % H)

\* u32 `<`.
u32_lt(a, b) == a[1] < b[1] \/ (a[1] = b[1] /\ a[2] < b[2])

AndTable == [p \in {0, 1} \X {0, 1} |-> IF p[1] = 1 /\ p[2] = 1 THEN 1 ELSE 0]
OrTable == [p \in {0, 1} \X {0, 1} |-> IF p[1] = 1 \/ p[2] = 1 THEN 1 ELSE 0]
XorTable == [p \in {0, 1} \X {0, 1} |-> IF p[1] # p[2] THEN 1 ELSE 0]

\* A bitwise operation, given by its truth table, on the low n bits of a and b.
RECURSIVE bitwise(_, _, _, _)
bitwise(table, a, b, n) ==
    IF n = 0 THEN 0
    ELSE table[<<a % 2, b % 2>>] + 2 * bitwise(table, a \div 2, b \div 2, n - 1)

\* u32 `&`, `|`, `^`.
bitand(a, b) == U32(bitwise(AndTable, a[1], b[1], 16), bitwise(AndTable, a[2], b[2], 16))
bitor(a, b) == U32(bitwise(OrTable, a[1], b[1], 16), bitwise(OrTable, a[2], b[2], 16))
bitxor(a, b) == U32(bitwise(XorTable, a[1], b[1], 16), bitwise(XorTable, a[2], b[2], 16))

\* i32::overflowing_add: the wrapped sum and whether it overflowed.
overflowing_add(a, b) ==
    IF a > 0 /\ b > I32_MAX - a THEN <<(a + I32_MIN) + (b + I32_MIN), TRUE>>
    ELSE IF a < 0 /\ b < I32_MIN - a THEN <<(a - I32_MIN) + (b - I32_MIN), TRUE>>
    ELSE <<a + b, FALSE>>

\* A u32 shifted left by n bits (n in 0..31): the bits shifted out are dropped.
shl_by(w, n) ==
    IF n >= 16
    THEN U32((w[2] * 2^(n - 16)) % H, 0)
    ELSE U32((w[1] * 2^n + (w[2] * 2^n) \div H) % H, (w[2] * 2^n) % H)

\* A u32 shifted right by n bits (n in 0..31): zeroes are shifted in.
shr_by(w, n) ==
    IF n >= 16
    THEN U32(0, w[1] \div 2^(n - 16))
    ELSE U32(w[1] \div 2^n, (w[1] % 2^n) * 2^(16 - n) + w[2] \div 2^n)

\* An i32 shifted right by n bits (n in 0..31): the sign bit is shifted in.
sar_by(x, n) == IF n = 0 THEN x ELSE (x \div 2^(n - 1)) \div 2

\* The shift amount `rhs` of a u32/i32 `<<` or `>>` is out of range: with overflow
\* checks the shift panics, without them the amount is taken modulo 32.
shift_overflows(rhs) == rhs[1] > 0 \/ rhs[2] >= 32
shift_amount(rhs) == rhs[2] % 32

----------------------------------------------------------------------------
(* fn sign_extend(imm: u32) -> u32 *)

sign_extend(imm) ==
    LET signed_imm == as_i32(imm)
        bit11 == sar_by(signed_imm, 11) % 2                \* (signed_imm >> 11) & 1
        mask == (-bit11) * 2^11                            \* -(...) << 11
        extended_imm == as_i32(bitor(as_u32(signed_imm), as_u32(mask)))
    IN  as_u32(extended_imm)

----------------------------------------------------------------------------
(* struct Processor *)

NumSlots == 33
Slots == 0 .. (NumSlots - 1)

\* Processor::new
new == [slot \in Slots |-> Zero]

\* Indexing self.registers[reg] panics when reg is out of bounds.
index_panics(reg) == reg \notin Slots

\* get reading one slot too low.
get_off_by_one(regs, reg) == IF reg = 0 THEN Zero ELSE regs[reg - 1]

\* Processor::get: the value returned (when it does not panic).
get(regs, reg) == IF reg = 0 THEN Zero ELSE regs[reg]
get_panics(reg) == reg # 0 /\ index_panics(reg)

\* set without its no-op arm for register 0.
set_unguarded(regs, reg, val) == [regs EXCEPT ![reg] = val]

\* set storing one slot too low.
set_off_by_one(regs, reg, val) == IF reg = 0 THEN regs ELSE [regs EXCEPT ![reg - 1] = val]

\* Processor::set: the registers afterwards (when it does not panic).
set(regs, reg, val) == IF reg = 0 THEN regs ELSE [regs EXCEPT ![reg] = val]
set_panics(reg) == reg # 0 /\ index_panics(reg)

----------------------------------------------------------------------------
(* The value each instruction computes from the source register's value, and *)
(* whether computing it panics.                                              *)

\* addi with a saturating add.
addi_result_saturating(rs1_val, imm) ==
    LET sum == overflowing_add(as_i32(rs1_val), as_i32(imm))
    IN  IF ~sum[2] THEN as_u32(sum[1])
        ELSE IF as_i32(imm) > 0 THEN as_u32(I32_MAX) ELSE as_u32(I32_MIN)

addi_result(rs1_val, imm) ==
    LET signed_imm == as_i32(imm)
        result == overflowing_add(as_i32(rs1_val), signed_imm)[1]
    IN  as_u32(result)

\* slti comparing the two as unsigned.
slti_result_unsigned(rs1_val, imm) == IF u32_lt(rs1_val, imm) THEN One ELSE Zero

slti_result(rs1_val, imm) ==
    IF as_i32(rs1_val) < as_i32(imm) THEN One ELSE Zero

\* sltiu whose SEQZ arm tests for a non-zero source.
sltiu_result_snez(rs1_val, imm) ==
    IF imm = One
    THEN (IF rs1_val # Zero THEN One ELSE Zero)
    ELSE (IF u32_lt(rs1_val, imm) THEN One ELSE Zero)

sltiu_result(rs1_val, imm) ==
    IF imm = One
    THEN (IF rs1_val = Zero THEN One ELSE Zero)      \* SEQZ pseudo-op
    ELSE (IF u32_lt(rs1_val, imm) THEN One ELSE Zero)

andi_result(rs1_val, imm) == bitand(rs1_val, imm)

ori_result(rs1_val, imm) == bitor(rs1_val, imm)

xori_result(rs1_val, imm) == bitxor(rs1_val, imm)

\* `rs1_val << imm`, `rs1_val >> imm` and `(rs1_val as i32) >> imm` panic on an
\* out-of-range amount exactly when the build has overflow checks.
shift_panics(imm) == overflow_checks /\ shift_overflows(imm)

slli_result(rs1_val, imm) == shl_by(rs1_val, shift_amount(imm))

srli_result(rs1_val, imm) == shr_by(rs1_val, shift_amount(imm))

\* srai shifting the unsigned value, so that zeroes come in.
srai_result_logical(rs1_val, imm) == shr_by(rs1_val, shift_amount(imm))

srai_result(rs1_val, imm) == as_u32(sar_by(as_i32(rs1_val), shift_amount(imm)))

----------------------------------------------------------------------------
(* The calls. *)

CallRecord(op, rd, rs1, imm, ret) ==
    [op |-> op, rd |-> rd, rs1 |-> rs1, imm |-> imm, ret |-> ret, old |-> registers]

Init ==
    /\ registers = new
    /\ panicked = FALSE
    /\ overflow_checks \in BOOLEAN
    /\ calls = 0
    /\ last = [op |-> "new", rd |-> 0, rs1 |-> 0, imm |-> Zero, ret |-> Zero, old |-> new]
    /\ shadow = [slot \in Slots |-> Zero]

\* cpu.set(reg, val)
Set(reg, val) ==
    /\ ~panicked
    /\ calls < MaxCalls
    /\ calls' = calls + 1
    /\ last' = CallRecord("set", reg, 0, val, Zero)
    /\ IF set_panics(reg)
       THEN panicked' = TRUE /\ UNCHANGED registers
       ELSE panicked' = FALSE /\ registers' = set(registers, reg, val)
    /\ shadow' = IF reg \in Slots THEN [shadow EXCEPT ![reg] = val] ELSE shadow
    /\ UNCHANGED overflow_checks

\* An instruction that stores its result in the source register.
Instruction_swapped(op, rd, rs1, imm, compute_panics, result) ==
    /\ ~panicked
    /\ calls < MaxCalls
    /\ calls' = calls + 1
    /\ last' = CallRecord(op, rd, rs1, imm, Zero)
    /\ IF get_panics(rs1) \/ compute_panics \/ set_panics(rd)
       THEN panicked' = TRUE /\ UNCHANGED registers
       ELSE panicked' = FALSE /\ registers' = set(registers, rs1, result)
    /\ UNCHANGED <<overflow_checks, shadow>>

\* An instruction: get(rs1), compute, set(rd, result). A panic at any of the three
\* unwinds before set has stored anything.
Instruction(op, rd, rs1, imm, compute_panics, result) ==
    /\ ~panicked
    /\ calls < MaxCalls
    /\ calls' = calls + 1
    /\ last' = CallRecord(op, rd, rs1, imm, Zero)
    /\ IF get_panics(rs1) \/ compute_panics \/ set_panics(rd)
       THEN panicked' = TRUE /\ UNCHANGED registers
       ELSE panicked' = FALSE /\ registers' = set(registers, rd, result)
    /\ UNCHANGED <<overflow_checks, shadow>>

addi(rd, rs1, imm) ==
    Instruction("addi", rd, rs1, imm, FALSE, addi_result(get(registers, rs1), imm))

slti(rd, rs1, imm) ==
    Instruction("slti", rd, rs1, imm, FALSE, slti_result(get(registers, rs1), imm))

sltiu(rd, rs1, imm) ==
    Instruction("sltiu", rd, rs1, imm, FALSE, sltiu_result(get(registers, rs1), imm))

andi(rd, rs1, imm) ==
    Instruction("andi", rd, rs1, imm, FALSE, andi_result(get(registers, rs1), imm))

ori(rd, rs1, imm) ==
    Instruction("ori", rd, rs1, imm, FALSE, ori_result(get(registers, rs1), imm))

xori(rd, rs1, imm) ==
    Instruction("xori", rd, rs1, imm, FALSE, xori_result(get(registers, rs1), imm))

slli(rd, rs1, imm) ==
    Instruction("slli", rd, rs1, imm, shift_panics(imm), slli_result(get(registers, rs1), imm))

srli(rd, rs1, imm) ==
    Instruction("srli", rd, rs1, imm, shift_panics(imm), srli_result(get(registers, rs1), imm))

srai(rd, rs1, imm) ==
    Instruction("srai", rd, rs1, imm, shift_panics(imm), srai_result(get(registers, rs1), imm))

\* sign_extend(imm), called on its own: it touches no Processor.
SignExtend(imm) ==
    /\ last' = CallRecord("sign_extend", 0, 0, imm, sign_extend(imm))
    /\ UNCHANGED <<registers, panicked, overflow_checks, calls, shadow>>

----------------------------------------------------------------------------
(* The register file under every call: set and the nine instructions. *)

\* Register indices: the zero register, the first and the last architectural register.
RegInputs == {0, 1, 31}

\* Indices passed to set: those, the last slot of the array and the first index past it.
SetRegInputs == RegInputs \cup {NumSlots - 1, NumSlots}

\* Values stored with set.
ValInputs == {U32(0, 13), AllOnes}

\* Immediates.
ImmInputs == {U32(0, 11)}

Next ==
    \/ \E reg \in SetRegInputs, val \in ValInputs : Set(reg, val)
    \/ \E rd \in RegInputs, rs1 \in RegInputs, imm \in ImmInputs :
        \/ addi(rd, rs1, imm)
        \/ slti(rd, rs1, imm)
        \/ sltiu(rd, rs1, imm)
        \/ andi(rd, rs1, imm)
        \/ ori(rd, rs1, imm)
        \/ xori(rd, rs1, imm)
        \/ slli(rd, rs1, imm)
        \/ srli(rd, rs1, imm)
        \/ srai(rd, rs1, imm)

Spec == Init /\ [][Next]_vars

----------------------------------------------------------------------------
(* Sequences of set calls alone, over more indices and values. *)

WideSetRegInputs == {0, 1, 2, 31, NumSlots - 1, NumSlots}

WideValInputs == {Zero, One, U32(0, 13), U32(2^15 - 1, H - 1), U32(2^15, 0), AllOnes}

NextSet == \E reg \in WideSetRegInputs, val \in WideValInputs : Set(reg, val)

SpecSet == Init /\ [][NextSet]_vars

----------------------------------------------------------------------------
(* addi, slti and sltiu over the extreme source values and immediates. *)

\* Raw 12-bit immediate fields, sign-extended by the caller as the tests do.
RawImmInputs == {U32(0, 0), U32(0, 1), U32(0, 2), U32(0, 2^11 - 1), U32(0, 2^11), U32(0, 2^12 - 1)}

\* Immediates: the sign-extended fields, and 0x7fffffff and 0x80000000 as they are.
ArithImmInputs ==
    {sign_extend(raw) : raw \in RawImmInputs} \cup {U32(2^15 - 1, H - 1), U32(2^15, 0)}

ArithRdInputs == {1, 31}
ArithRs1Inputs == {0, 1}

NextArith ==
    \/ \E val \in WideValInputs : calls < MaxWideCalls /\ Set(1, val)
    \/ \E rd \in ArithRdInputs, rs1 \in ArithRs1Inputs, imm \in ArithImmInputs :
        \/ calls < MaxWideCalls /\ addi(rd, rs1, imm)
        \/ calls < MaxWideCalls /\ slti(rd, rs1, imm)
        \/ calls < MaxWideCalls /\ sltiu(rd, rs1, imm)

SpecArith == Init /\ [][NextArith]_vars

----------------------------------------------------------------------------
(* slli, srli and srai over every shift amount, in and out of range. *)

\* The amounts 0 .. MaxShamt, then 0x10005 (low five bits 5) and 0xfffff800 (low
\* five bits 0).
ShiftImmInputs ==
    {U32(0, n) : n \in 0 .. MaxShamt} \cup {U32(1, 5), sign_extend(U32(0, 2^11))}

ShiftValInputs ==
    {One, U32(8481, 8481), U32(2^15 - 1, H - 1), U32(2^15, 0), U32(33153, 33153), AllOnes}

NextShift ==
    \/ \E val \in ShiftValInputs : calls < MaxWideCalls /\ Set(1, val)
    \/ \E rd \in {1, 31}, imm \in ShiftImmInputs :
        \/ calls < MaxWideCalls /\ slli(rd, 1, imm)
        \/ calls < MaxWideCalls /\ srli(rd, 1, imm)
        \/ calls < MaxWideCalls /\ srai(rd, 1, imm)

SpecShift == Init /\ [][NextShift]_vars

----------------------------------------------------------------------------
(* sign_extend over raw fields with and without bits above bit 11. *)

SignExtendLowInputs ==
    {0, 1, 2, 3, 7, 11, 13, 31, 32, 50, 240, 1807, 2^11 - 2, 2^11 - 1, 2^11, 2^11 + 1,
     3855, 2^12 - 2, 2^12 - 1, 2^12, 2^12 + 2^11 - 1, 2^12 + 2^11, 2^15 - 1, 2^15,
     H - 2^11 - 1, H - 2^11, H - 1}

SignExtendHighInputs == {0, 1, 2^15 - 1, 2^15, H - 1}

SignExtendInputs == {U32(hi, lo) : hi \in SignExtendHighInputs, lo \in SignExtendLowInputs}

NextSignExtend == \E imm \in SignExtendInputs : SignExtend(imm)

SpecSignExtend == Init /\ [][NextSignExtend]_vars

----------------------------------------------------------------------------
(* What the properties below are stated with. *)

InstructionOps == {"addi", "slti", "sltiu", "andi", "ori", "xori", "slli", "srli", "srai"}
ShiftOps == {"slli", "srli", "srai"}

\* The architectural register indices, and those that are not the zero register.
ArchRegs == 0 .. 31
WritableRegs == 1 .. 31

\* Bit i (0 = least significant) of a u32.
Bit(w, i) == IF i >= 16 THEN (w[1] \div 2^(i - 16)) % 2 ELSE (w[2] \div 2^i) % 2

\* The value the last call read from its source register.
LastSource == get(last.old, last.rs1)

\* The last call was an instruction on architectural registers.
LastIsInstruction ==
    last.op \in InstructionOps /\ last.rd \in ArchRegs /\ last.rs1 \in ArchRegs

\* ... with its immediate in the instruction's defined range (a shift amount is 0..31).
LastInDefinedRange ==
    LastIsInstruction /\ (last.op \in ShiftOps => ~shift_overflows(last.imm))

\* (a + b) mod 2^32, added half by half with the carry.
add_mod_2_32(a, b) ==
    LET lo == a[2] + b[2]
    IN  U32((a[1] + b[1] + lo \div H) % H, lo % H)

\* a < b as unsigned numbers: both moved down by 2^31 and compared as integers.
unsigned_less(a, b) ==
    as_i32(U32((a[1] + 2^15) % H, a[2])) < as_i32(U32((b[1] + 2^15) % H, b[2]))

\* a < b as two's-complement numbers: by the sign bits, then as unsigned.
signed_less(a, b) ==
    IF Bit(a, 31) # Bit(b, 31) THEN Bit(a, 31) = 1 ELSE u32_lt(a, b)

\* q = floor(x / 2^n) for n in 0..31.
is_floor_div_pow2(q, x, n) ==
    IF n = 31 THEN q = (IF x < 0 THEN -1 ELSE 0)
    ELSE (x - q * 2^n) \in 0 .. (2^n - 1)

\* What an instruction stores, from the value of its source and its immediate.
ResultOf(op, rs1_val, imm) ==
    CASE op = "addi" -> addi_result(rs1_val, imm)
      [] op = "slti" -> slti_result(rs1_val, imm)
      [] op = "sltiu" -> sltiu_result(rs1_val, imm)
      [] op = "andi" -> andi_result(rs1_val, imm)
      [] op = "ori" -> ori_result(rs1_val, imm)
      [] op = "xori" -> xori_result(rs1_val, imm)
      [] op = "slli" -> slli_result(rs1_val, imm)
      [] op = "srli" -> srli_result(rs1_val, imm)
      [] op = "srai" -> srai_result(rs1_val, imm)

----------------------------------------------------------------------------
(* The register file. *)

\* C1: register 0 is hard-wired to zero: after any sequence of set calls (index 0
\* included) and of the nine instructions, get(0) returns 0, and slot 0 of the
\* storage has never been written.
C1_RegisterZeroIsZero == get(registers, 0) = Zero /\ registers[0] = Zero

\* set(0, 0xffffffff) was called, and then addi with rd = 0 computed a non-zero result.
C1_Witness ==
    /\ shadow[0] = AllOnes
    /\ last.op = "addi" /\ last.rd = 0 /\ ~panicked
    /\ addi_result(LastSource, last.imm) # Zero

\* C2: after any sequence of set calls on a new Processor, get(i) for i in 1..31
\* returns the value of the most recent set(i, v), or 0 if there was none, and a
\* set on another index leaves what get(i) returns as it was.
C2_ReadsBackLastSet ==
    /\ \A i \in WritableRegs : get(registers, i) = shadow[i]
    /\ last.op = "set" =>
        \A i \in WritableRegs \ {last.rd} : get(registers, i) = get(last.old, i)

\* Register 31 was set, register 1 was set to another value, and register 31 was
\* then set again, to a value it did not hold.
C2_Witness ==
    /\ last.op = "set" /\ last.rd = 31 /\ ~panicked
    /\ last.old[31] # Zero /\ last.imm # last.old[31]
    /\ registers[1] # Zero /\ registers[1] # registers[31]
    /\ calls = 3

\* C3: an instruction with rd = 0, any source register and any immediate in its
\* defined range leaves the register file as it was: the storage is unchanged and
\* every register, register 0 and the source included, reads as before.
C3_ZeroDestinationChangesNothing ==
    (LastInDefinedRange /\ last.rd = 0) =>
        /\ registers = last.old
        /\ \A i \in ArchRegs : get(registers, i) = get(last.old, i)

\* xori with rd = 0 ran on source register 1 holding 0xffffffff, register 31
\* holding a value too.
C3_Witness ==
    /\ last.op = "xori" /\ last.rd = 0 /\ last.rs1 = 1 /\ ~panicked
    /\ last.old[1] = AllOnes /\ last.old[31] # Zero
    /\ xori_result(LastSource, last.imm) # Zero

\* C10: an instruction changes at most its destination: every register other than
\* rd reads as before, and with rd = rs1 the value stored is the one computed from
\* the register's value before the call (addi on 13 with immediate 11 leaves 24).
C10_OnlyDestinationChanges ==
    LastInDefinedRange =>
        /\ \A i \in ArchRegs \ {last.rd} : get(registers, i) = get(last.old, i)
        /\ (last.rd = last.rs1 /\ last.rd # 0) =>
            /\ ~panicked
            /\ registers[last.rd] = ResultOf(last.op, last.old[last.rd], last.imm)
        /\ (/\ last.op = "addi" /\ last.rd = last.rs1 /\ last.rd # 0
            /\ last.old[last.rd] = U32(0, 13) /\ last.imm = U32(0, 11)) =>
            registers[last.rd] = U32(0, 24)

\* addi ran with rd = rs1 = 1 on 13 and 11, register 31 holding a value too.
C10_Witness ==
    /\ last.op = "addi" /\ last.rd = 1 /\ last.rs1 = 1 /\ ~panicked
    /\ last.old[1] = U32(0, 13) /\ last.imm = U32(0, 11)
    /\ registers[1] = U32(0, 24)
    /\ last.old[31] = AllOnes /\ registers[31] = AllOnes

----------------------------------------------------------------------------
(* addi, slti, sltiu. *)

\* C4: addi with rd # 0 stores (get(rs1) + imm) mod 2^32 in rd, for every source
\* value and immediate; signed overflow wraps and never faults or saturates.
C4_AddiWraps ==
    (LastIsInstruction /\ last.op = "addi" /\ last.rd # 0) =>
        /\ ~panicked
        /\ registers[last.rd] = add_mod_2_32(LastSource, last.imm)

\* addi ran on 0x7fffffff with immediate 1 and stored 0x80000000.
C4_Witness ==
    /\ last.op = "addi" /\ last.rd = 31 /\ last.rs1 = 1 /\ ~panicked
    /\ last.old[1] = U32(2^15 - 1, H - 1) /\ last.imm = One
    /\ registers[31] = U32(2^15, 0)

\* C6: sltiu with rd # 0 stores 1 in rd if get(rs1) < imm as unsigned numbers and
\* 0 otherwise, for every immediate: the branch taken for imm = 1 gives what the
\* unsigned comparison gives.
C6_SltiuIsUnsignedLess ==
    (LastIsInstruction /\ last.op = "sltiu" /\ last.rd # 0) =>
        /\ ~panicked
        /\ registers[last.rd] = (IF unsigned_less(LastSource, last.imm) THEN One ELSE Zero)

\* sltiu ran with immediate 1 on a source holding 0xffffffff and stored 0.
C6_Witness ==
    /\ last.op = "sltiu" /\ last.rd = 31 /\ last.rs1 = 1 /\ ~panicked
    /\ last.imm = One /\ last.old[1] = AllOnes
    /\ registers[31] = Zero

\* C7: slti with rd # 0 stores 1 in rd if the source is less than the immediate,
\* both read as two's-complement numbers, and 0 otherwise; on source 0x80000000
\* and immediate 0, slti stores 1 and sltiu stores 0.
C7_SltiIsSignedLess ==
    /\ (LastIsInstruction /\ last.op = "slti" /\ last.rd # 0) =>
        /\ ~panicked
        /\ registers[last.rd] = (IF signed_less(LastSource, last.imm) THEN One ELSE Zero)
    /\ (/\ LastIsInstruction /\ last.op \in {"slti", "sltiu"} /\ last.rd # 0
        /\ LastSource = U32(2^15, 0) /\ last.imm = Zero) =>
        registers[last.rd] = (IF last.op = "slti" THEN One ELSE Zero)

\* slti ran on source 0x80000000 with immediate 0 and stored 1.
C7_Witness ==
    /\ last.op = "slti" /\ last.rd = 31 /\ last.rs1 = 1 /\ ~panicked
    /\ last.old[1] = U32(2^15, 0) /\ last.imm = Zero
    /\ registers[31] = One

----------------------------------------------------------------------------
(* The shifts. *)

\* C8: srai with rd # 0 and a shift amount n in 0..31 stores the sign-filled shift:
\* bit i of the result is bit i + n of the source, or the source's bit 31 above
\* that, and the result read as signed is floor(signed(source) / 2^n); 0xffffffff
\* gives 0xffffffff for every n, while srli of 0xffffffff by n gives n zero bits
\* followed by ones.
C8_SraiSignFills ==
    (/\ LastInDefinedRange /\ last.op \in {"srai", "srli"} /\ last.rd # 0) =>
        LET n == last.imm[2]
            result == registers[last.rd]
        IN  /\ ~panicked
            /\ last.op = "srai" =>
                /\ \A i \in 0 .. 31 :
                    Bit(result, i) = Bit(LastSource, IF i + n <= 31 THEN i + n ELSE 31)
                /\ is_floor_div_pow2(as_i32(result), as_i32(LastSource), n)
                /\ LastSource = AllOnes => result = AllOnes
            /\ (last.op = "srli" /\ LastSource = AllOnes) =>
                \A i \in 0 .. 31 : Bit(result, i) = (IF i + n <= 31 THEN 1 ELSE 0)

\* srai ran on 0x80000000 with shift amount 7 and stored 0xff000000.
C8_Witness ==
    /\ last.op = "srai" /\ last.rd = 31 /\ last.rs1 = 1 /\ ~panicked
    /\ last.old[1] = U32(2^15, 0) /\ last.imm = U32(0, 7)
    /\ registers[31] = U32(H - 2^8, 0)

\* C9: for slli, srli and srai the shift amount is the low 5 bits of the immediate:
\* for every immediate, those above 31 included, the call completes without a fault
\* and stores what a shift by (immediate mod 32) stores.
C9_ShiftAmountIsLowFiveBits ==
    (LastIsInstruction /\ last.op \in ShiftOps /\ last.rd # 0) =>
        /\ ~panicked
        /\ registers[last.rd] = ResultOf(last.op, LastSource, U32(0, last.imm[2] % 32))

----------------------------------------------------------------------------
(* sign_extend. *)

\* C5: sign_extend is total and, for every 32-bit input, returns the value whose low
\* 12 bits are those of the input and whose bits 12..31 all equal the input's bit 11,
\* whatever the input's bits 12..31 were.
C5_SignExtendReplicatesBit11 ==
    last.op = "sign_extend" =>
        /\ \A i \in 0 .. 11 : Bit(last.ret, i) = Bit(last.imm, i)
        /\ \A i \in 12 .. 31 : Bit(last.ret, i) = Bit(last.imm, 11)

=============================================================================
